---- MODULE Spec2Model ----
(***************************************************************************)
(* Model of the denoiser worker, src/server/python/denoiser_service.py:    *)
(* the line-delimited JSON loop of main() around one                       *)
(* FacebookDenoiserService, with the float32 <-> bytes <-> base64          *)
(* marshalling of the process command computed byte by byte.               *)
(***************************************************************************)
EXTENDS Integers, Sequences, FiniteSets, TLC

(***************************************************************************)
(* Bounds of the model.                                                    *)
(***************************************************************************)
\* lines the parent writes before it closes the channel
MaxLines == 3
\* samples in a submitted buffer
MaxLen == 2
\* samples in a tensor the external model returns
MaxOut == 2
\* largest measured processing time, in ms
MaxElapsed == 1

(***************************************************************************)
(* float32 samples.  A sample is its IEEE-754 binary32 bit pattern, kept   *)
(* as sign / biased exponent / 23-bit mantissa.                            *)
(***************************************************************************)
F32(s, e, m) == [s |-> s, e |-> e, m |-> m]

ExpBias == 127
MantHalf == 2^22

Zero == F32(0, 0, 0)
One == F32(0, ExpBias, 0)
\* 0.75, -2.0, 0.5 and 4.0
ThreeQuarters == F32(0, ExpBias - 1, MantHalf)
MinusTwo == F32(1, ExpBias + 1, 0)
Half == F32(0, ExpBias - 1, 0)
Four == F32(0, ExpBias + 2, 0)

IsNaN(x) == x.e = 255 /\ x.m # 0

\* np.abs on one sample: the sign bit cleared
F32Abs(x) == F32(0, x.e, x.m)

\* x > y for non-negative x, y; every comparison with a NaN is False
F32Gt(x, y) ==
    /\ ~IsNaN(x)
    /\ ~IsNaN(y)
    /\ (x.e > y.e \/ (x.e = y.e /\ x.m > y.m))

\* x / d for d a power of two, d > 1: the exponent moves, the mantissa stays
\* (exact in binary32 as long as the quotient stays normal)
F32Div(x, d) ==
    CASE IsNaN(x) -> x
      [] x.e = 0 /\ x.m = 0 -> x
      [] x.e = 255 /\ x.m = 0 -> x
      [] d.m = 0 /\ d.e > ExpBias /\ d.e < 255 /\ x.e - (d.e - ExpBias) >= 1 ->
            F32(x.s, x.e - (d.e - ExpBias), x.m)

\* ndarray.max() of the magnitudes; a NaN anywhere makes the maximum NaN
RECURSIVE MaxAbs(_)
MaxAbs(a) ==
    IF Len(a) = 1 THEN F32Abs(a[1])
    ELSE LET h == F32Abs(a[1])
             r == MaxAbs(Tail(a))
         IN  IF IsNaN(h) THEN h
             ELSE IF IsNaN(r) THEN r
             ELSE IF F32Gt(r, h) THEN r ELSE h

(***************************************************************************)
(* bytes: ndarray.tobytes() and np.frombuffer(dtype=float32), little       *)
(* endian.                                                                 *)
(***************************************************************************)
F32Bytes(x) ==
    << x.m % 256,
       (x.m \div 256) % 256,
       (x.m \div 65536) + 128 * (x.e % 2),
       128 * x.s + (x.e \div 2) >>

BytesF32(b0, b1, b2, b3) ==
    F32(b3 \div 128,
        2 * (b3 % 128) + (b2 \div 128),
        65536 * (b2 % 128) + 256 * b1 + b0)

RECURSIVE tobytes(_)
tobytes(a) ==
    IF a = <<>> THEN <<>> ELSE F32Bytes(Head(a)) \o tobytes(Tail(a))

RECURSIVE BytesToSamples(_)
BytesToSamples(b) ==
    IF b = <<>> THEN <<>>
    ELSE <<BytesF32(b[1], b[2], b[3], b[4])>>
            \o BytesToSamples(SubSeq(b, 5, Len(b)))

\* np.frombuffer raises ValueError unless the size is a multiple of 4
frombuffer(b) ==
    IF Len(b) % 4 # 0 THEN [ok |-> FALSE, array |-> <<>>]
    ELSE [ok |-> TRUE, array |-> BytesToSamples(b)]

(***************************************************************************)
(* base64 text: a character is its index in the base64 alphabet, the pad   *)
(* character '=', or a character outside the alphabet.                     *)
(***************************************************************************)
PadChar == 64
JunkChar == 65

\* mutant: the last group is written without its padding
RECURSIVE b64encode_nopad(_)
b64encode_nopad(b) ==
    IF b = <<>> THEN <<>>
    ELSE IF Len(b) = 1 THEN
        << b[1] \div 4, (b[1] % 4) * 16 >>
    ELSE IF Len(b) = 2 THEN
        << b[1] \div 4, (b[1] % 4) * 16 + (b[2] \div 16), (b[2] % 16) * 4 >>
    ELSE
        << b[1] \div 4, (b[1] % 4) * 16 + (b[2] \div 16),
           (b[2] % 16) * 4 + (b[3] \div 64), b[3] % 64 >>
            \o b64encode_nopad(SubSeq(b, 4, Len(b)))

RECURSIVE b64encode(_)
b64encode(b) ==
    IF b = <<>> THEN <<>>
    ELSE IF Len(b) = 1 THEN
        << b[1] \div 4, (b[1] % 4) * 16, PadChar, PadChar >>
    ELSE IF Len(b) = 2 THEN
        << b[1] \div 4, (b[1] % 4) * 16 + (b[2] \div 16),
           (b[2] % 16) * 4, PadChar >>
    ELSE
        << b[1] \div 4, (b[1] % 4) * 16 + (b[2] \div 16),
           (b[2] % 16) * 4 + (b[3] \div 64), b[3] % 64 >>
            \o b64encode(SubSeq(b, 4, Len(b)))

\* binascii.a2b_base64, not strict: characters outside the alphabet are
\* skipped, a completed pad sequence ends the parse, and a group left open at
\* the end raises binascii.Error
RECURSIVE B64Scan(_, _, _, _, _)
B64Scan(c, quad_pos, leftchar, pads, bin) ==
    IF c = <<>> THEN [ok |-> quad_pos = 0, bytes |-> bin]
    ELSE LET ch == Head(c)
             rest == Tail(c)
         IN  IF ch = PadChar THEN
                 IF quad_pos >= 2 /\ quad_pos + pads + 1 >= 4
                 THEN [ok |-> TRUE, bytes |-> bin]
                 ELSE B64Scan(rest, quad_pos, leftchar,
                              IF quad_pos >= 2 THEN pads + 1 ELSE pads, bin)
             ELSE IF ch >= 64 THEN B64Scan(rest, quad_pos, leftchar, pads, bin)
             ELSE CASE quad_pos = 0 -> B64Scan(rest, 1, ch, 0, bin)
                    [] quad_pos = 1 ->
                         B64Scan(rest, 2, ch % 16, 0,
                                 Append(bin, leftchar * 4 + (ch \div 16)))
                    [] quad_pos = 2 ->
                         B64Scan(rest, 3, ch % 4, 0,
                                 Append(bin, leftchar * 16 + (ch \div 4)))
                    [] quad_pos = 3 ->
                         B64Scan(rest, 0, 0, 0,
                                 Append(bin, leftchar * 64 + ch))

b64decode(c) == B64Scan(c, 0, 0, 0, <<>>)

(***************************************************************************)
(* Input domains: the sample values, the buffers a client encodes, and the *)
(* tensors the external model can hand back.                               *)
(***************************************************************************)
InSamples == {ThreeQuarters, MinusTwo}
OutSamples == {Half, Four}

Buffers == UNION {[1..n -> InSamples] : n \in 0..MaxLen}
OutBuffers == UNION {[1..n -> OutSamples] : n \in 0..MaxOut}

(***************************************************************************)
(* Session state and the worker's position in its loop.                    *)
(***************************************************************************)
VARIABLES
    pc,                \* "read": at readline; "handle": a line is read and
                       \* not yet answered; "done": the loop has ended
    line,              \* the line last read
    lines_read,        \* lines read from stdin so far
    lines_written,     \* response lines written to stdout so far
    result,            \* the response written for line; Envelope, with
                       \* no keys, while line has none yet
    successes,         \* process responses written with status success
    model,             \* self.model
    apply_model,       \* whether self.apply_model is set
    is_initialized,    \* self.is_initialized
    device,            \* self.device
    processing_stats   \* self.processing_stats

service == <<model, apply_model, is_initialized, device, processing_stats>>
vars == <<pc, line, lines_read, lines_written, result, successes,
          model, apply_model, is_initialized, device, processing_stats>>

ZeroStats ==
    [total_processed |-> 0, total_time |-> 0, avg_time |-> 0,
     max_time |-> 0, errors |-> 0]

Devices == {"cpu", "cuda"}

(***************************************************************************)
(* Command lines.  text says what json.loads makes of the line: "garbage"  *)
(* raises JSONDecodeError, "json" parses, and "nonstandard" is a line with *)
(* a NaN or Infinity literal, which is not JSON and which json.loads       *)
(* parses all the same.  value is "object" for a JSON object.  command is  *)
(* the str() of the object's command field, "None" when it has none.       *)
(***************************************************************************)
NoAudio == [type |-> "missing", chars |-> <<>>]

Line(text, value, command, audio) ==
    [text |-> text, value |-> value, command |-> command, audio |-> audio]

NoLine == Line("", "", "", NoAudio)

\* what a client sends for a buffer: tobytes, b64encode, decode('utf-8')
EncodeAudio(buf) == [type |-> "string", chars |-> b64encode(tobytes(buf))]

\* audio fields that are no encoded float32 buffer: a number, "A", "AA==",
\* "====" and "!"
OddAudio ==
    { [type |-> "number", chars |-> <<>>],
      [type |-> "string", chars |-> <<0>>],
      [type |-> "string", chars |-> <<0, 0, PadChar, PadChar>>],
      [type |-> "string", chars |-> <<PadChar, PadChar, PadChar, PadChar>>],
      [type |-> "string", chars |-> <<JunkChar>>] }

AudioFields == {NoAudio} \cup OddAudio \cup {EncodeAudio(b) : b \in Buffers}

Lines ==
    {Line("garbage", "", "", NoAudio)}
        \cup {Line("json", "other", "", NoAudio)}
        \cup {Line("json", "object", c, NoAudio) :
                 c \in {"init", "health", "None", "stop"}}
        \cup {Line("nonstandard", "object", c, NoAudio) : c \in {"health", "NaN"}}
        \cup {Line("json", "object", "process", a) : a \in AudioFields}

(***************************************************************************)
(* Result envelopes.  keys holds the fields a response carries; a field    *)
(* outside keys keeps the value it has here.                               *)
(***************************************************************************)
Envelope ==
    [keys |-> {}, status |-> "", message |-> <<"", "">>,
     audio |-> [kind |-> "absent", data |-> <<>>],
     processing_time |-> 0, input_samples |-> 0, output_samples |-> 0,
     stats |-> ZeroStats, model_loaded |-> FALSE, device |-> "",
     memory_usage |-> ""]

\* mutant: error envelopes say "failed" where the protocol says "error"
ErrorEnvelopeFailed(prefix, e) ==
    [Envelope EXCEPT !.keys = {"status", "message", "error"},
                     !.status = "failed", !.message = <<prefix, e>>]

\* {'status': 'error', 'message': f'{prefix}{e}', 'error': str(e)}
ErrorEnvelope(prefix, e) ==
    [Envelope EXCEPT !.keys = {"status", "message", "error"},
                     !.status = "error", !.message = <<prefix, e>>]

(***************************************************************************)
(* initialize_model.  What the libraries do is the environment's choice:   *)
(* loaded is the model assigned to self.model before anything raised       *)
(* ("None": nothing was assigned), ready says whether the moves to the     *)
(* device and to evaluation mode went through.                             *)
(***************************************************************************)
InitOutcomes ==
    [loaded : {"dns64", "speechbrain"}, ready : BOOLEAN]
        \cup {[loaded |-> "None", ready |-> FALSE]}

\* mutant: the flag is cleared on entry, so a failed init leaves it false
initialize_model_reset(o, dev, m, am, ini) ==
    [ model |-> IF o.loaded = "None" THEN m ELSE o.loaded,
      apply_model |-> am \/ o.loaded = "dns64",
      is_initialized |-> o.ready,
      result |->
        IF o.ready
        THEN [Envelope EXCEPT
                !.keys = {"status", "message", "device", "model_type",
                          "init_time"},
                !.status = "success",
                !.message = <<"Model initialized successfully", "">>,
                !.device = dev]
        ELSE ErrorEnvelope("Model initialization failed: ", "exception") ]

initialize_model(o, dev, m, am, ini) ==
    [ model |-> IF o.loaded = "None" THEN m ELSE o.loaded,
      apply_model |-> am \/ o.loaded = "dns64",
      is_initialized |-> ini \/ o.ready,
      result |->
        IF o.ready
        THEN [Envelope EXCEPT
                !.keys = {"status", "message", "device", "model_type",
                          "init_time"},
                !.status = "success",
                !.message = <<"Model initialized successfully", "">>,
                !.device = dev]
        ELSE ErrorEnvelope("Model initialization failed: ", "exception") ]

(***************************************************************************)
(* process_audio.                                                          *)
(***************************************************************************)
\* lines 132-134: scale into [-1, 1] when a magnitude exceeds 1.0
Normalize(a) ==
    IF F32Gt(MaxAbs(a), One)
    THEN [i \in 1..Len(a) |-> F32Div(a[i], MaxAbs(a))]
    ELSE a

\* What the model call gives: it raises, or returns a tensor of rank 1 to 3
\* holding data, its batch and channel dimensions of size 1.
ModelOutcomes ==
    {[raises |-> TRUE, rank |-> 1, data |-> <<>>]}
        \cup [raises : {FALSE}, rank : 1..3, data : OutBuffers]

\* the returned tensor, as nested sequences
Tensor(o) ==
    [ rank |-> o.rank,
      value |-> CASE o.rank = 1 -> o.data
                  [] o.rank = 2 -> <<o.data>>
                  [] o.rank = 3 -> <<<<o.data>>>> ]

\* tensor.squeeze(0): the first dimension goes when its size is 1
Squeeze0(t) ==
    IF Len(t.value) = 1 THEN [rank |-> t.rank - 1, value |-> t.value[1]]
    ELSE t

\* lines 155-160: drop the batch and channel dimensions, then to numpy
ToNumpy(t) ==
    LET t1 == IF t.rank > 2 THEN Squeeze0(t) ELSE t
        t2 == IF t1.rank > 1 THEN Squeeze0(t1) ELSE t1
    IN  t2.value

\* mutant: a short model output is left short
FitLengthTrimOnly(denoised, n) ==
    IF Len(denoised) > n THEN SubSeq(denoised, 1, n) ELSE denoised

\* lines 163-168: trim or zero-pad the model's output to n samples
FitLength(denoised, n) ==
    IF Len(denoised) # n
    THEN IF Len(denoised) > n
         THEN SubSeq(denoised, 1, n)
         ELSE denoised \o [i \in 1..(n - Len(denoised)) |-> Zero]
    ELSE denoised

\* mutant: the average is taken before the new time is added
UpdateStatsStaleAvg(stats, processing_time) ==
    LET n == stats.total_processed + 1
    IN  [stats EXCEPT
           !.total_processed = n,
           !.total_time = stats.total_time + processing_time,
           !.avg_time = stats.total_time \div n,
           !.max_time = IF stats.max_time >= processing_time
                        THEN stats.max_time ELSE processing_time]

\* mutant: max_time keeps the last time, not the largest
UpdateStatsLastTime(stats, processing_time) ==
    LET n == stats.total_processed + 1
        t == stats.total_time + processing_time
    IN  [stats EXCEPT
           !.total_processed = n,
           !.total_time = t,
           !.avg_time = t \div n,
           !.max_time = processing_time]

\* lines 173-176
UpdateStats(stats, processing_time) ==
    LET n == stats.total_processed + 1
        t == stats.total_time + processing_time
    IN  [stats EXCEPT
           !.total_processed = n,
           !.total_time = t,
           !.avg_time = t \div n,
           !.max_time = IF stats.max_time >= processing_time
                        THEN stats.max_time ELSE processing_time]

\* lines 192-194
CountError(stats) == [stats EXCEPT !.errors = stats.errors + 1]

\* mutant: a loaded model is enough to get past the guard
NotInitializedBoth(m, ini) == ~ini /\ m = "None"

\* line 108
NotInitialized(m, ini) == ~ini \/ m = "None"

process_audio(audio_data, o, elapsed, m, ini, stats) ==
    IF NotInitialized(m, ini) THEN
        [ stats |-> stats,
          result |-> [Envelope EXCEPT
              !.keys = {"status", "message", "audio", "processing_time"},
              !.status = "error",
              !.message = <<"Model not initialized", "">>,
              !.audio = [kind |-> "null", data |-> <<>>]] ]
    ELSE IF Len(audio_data) = 0 THEN
        [ stats |-> stats,
          result |-> [Envelope EXCEPT
              !.keys = {"status", "message", "audio", "processing_time"},
              !.status = "error",
              !.message = <<"Empty audio data", "">>,
              !.audio = [kind |-> "null", data |-> <<>>]] ]
    ELSE LET normalized == Normalize(audio_data)
         IN  IF o.raises THEN
                 [ stats |-> CountError(stats),
                   result |-> [Envelope EXCEPT
                       !.keys = {"status", "message", "audio",
                                 "processing_time", "error"},
                       !.status = "error",
                       !.message = <<"Audio processing failed: ", "model">>,
                       !.audio = [kind |-> "ndarray", data |-> normalized],
                       !.processing_time = elapsed] ]
             ELSE LET denoised_audio ==
                          FitLength(ToNumpy(Tensor(o)), Len(normalized))
                      updated == UpdateStats(stats, elapsed)
                  IN  [ stats |-> updated,
                        result |-> [Envelope EXCEPT
                            !.keys = {"status", "audio", "processing_time",
                                      "input_samples", "output_samples",
                                      "stats"},
                            !.status = "success",
                            !.audio = [kind |-> "ndarray",
                                       data |-> denoised_audio],
                            !.processing_time = elapsed,
                            !.input_samples = Len(normalized),
                            !.output_samples = Len(denoised_audio),
                            !.stats = updated] ]

(***************************************************************************)
(* health_check and get_memory_usage.                                      *)
(***************************************************************************)
\* psutil answers, is not installed, or raises
MemOutcomes == {"usage", "psutil not available", "psutil failed"}

get_memory_usage(mem) == IF mem = "usage" THEN "usage" ELSE "error"

\* mutant: a failure of get_memory_usage fails the health check
health_check_or_fail(mem, dev, ini, stats) ==
    IF mem # "usage" THEN ErrorEnvelope("Service error: ", mem)
    ELSE [Envelope EXCEPT
            !.keys = {"status", "model_loaded", "device", "stats",
                      "memory_usage"},
            !.status = IF ini THEN "healthy" ELSE "not_initialized",
            !.model_loaded = ini,
            !.device = dev,
            !.stats = stats,
            !.memory_usage = "usage"]

health_check(mem, dev, ini, stats) ==
    [Envelope EXCEPT
       !.keys = {"status", "model_loaded", "device", "stats", "memory_usage"},
       !.status = IF ini THEN "healthy" ELSE "not_initialized",
       !.model_loaded = ini,
       !.device = dev,
       !.stats = stats,
       !.memory_usage = get_memory_usage(mem)]

(***************************************************************************)
(* main: the process branch, lines 255-283.                                *)
(***************************************************************************)
\* `not audio_b64`: no audio key, or an empty string
Falsy(audio) ==
    audio.type = "missing" \/ (audio.type = "string" /\ audio.chars = <<>>)

\* lines 263-265: b64decode raises on a non-string and on a bad group,
\* frombuffer on a size that is no multiple of 4
DecodeAudio(audio) ==
    IF audio.type # "string" THEN [ok |-> FALSE, array |-> <<>>]
    ELSE LET d == b64decode(audio.chars)
         IN  IF d.ok THEN frombuffer(d.bytes)
             ELSE [ok |-> FALSE, array |-> <<>>]

\* lines 271-274: a successful result's array becomes base64 text
EncodeResult(r) ==
    IF r.status = "success" /\ r.audio.kind # "null"
    THEN [r EXCEPT !.audio =
             [kind |-> "b64", data |-> b64encode(tobytes(r.audio.data))]]
    ELSE r

MainProcess(audio, o, elapsed, m, ini, stats) ==
    IF Falsy(audio) THEN
        [ stats |-> stats,
          result |-> [Envelope EXCEPT
              !.keys = {"status", "message"},
              !.status = "error",
              !.message = <<"No audio data provided", "">>] ]
    ELSE LET audio_array == DecodeAudio(audio)
         IN  IF ~audio_array.ok THEN
                 [ stats |-> stats,
                   result |-> ErrorEnvelope("Audio decoding/encoding failed: ",
                                            "decode") ]
             ELSE LET p == process_audio(audio_array.array, o, elapsed,
                                        m, ini, stats)
                  IN  [stats |-> p.stats, result |-> EncodeResult(p.result)]

(***************************************************************************)
(* main: writing the response, lines 296 and 306-313.                      *)
(***************************************************************************)
\* json.dumps raises TypeError on a numpy array
Serializable(r) == r.audio.kind # "ndarray"

\* the line that goes out for result r
Response(r) ==
    IF Serializable(r) THEN r
    ELSE ErrorEnvelope("Service error: ",
                       "Object of type ndarray is not JSON serializable")

\* mutant: the message does not name the command
UnknownResultUnnamed(command_type) ==
    [Envelope EXCEPT
       !.keys = {"status", "message"},
       !.status = "error",
       !.message = <<"Unknown command", "">>]

\* lines 290-293
UnknownResult(command_type) ==
    [Envelope EXCEPT
       !.keys = {"status", "message"},
       !.status = "error",
       !.message = <<"Unknown command: ", command_type>>]

\* json.loads(line.strip()) returns
Parses(l) == l.text # "garbage"

Commands == {"init", "process", "health"}

\* process_audio gets as far as the model call (line 146)
ReachesModel(audio, m, ini) ==
    /\ ~Falsy(audio)
    /\ DecodeAudio(audio).ok
    /\ ~NotInitialized(m, ini)
    /\ Len(DecodeAudio(audio).array) > 0

\* no model call, no clock reading that matters
NoCall == [raises |-> FALSE, rank |-> 1, data |-> <<>>]

(***************************************************************************)
(* The loop of main, one action per step.                                  *)
(***************************************************************************)
Init ==
    /\ pc = "read"
    /\ line = NoLine
    /\ lines_read = 0
    /\ lines_written = 0
    /\ result = Envelope
    /\ successes = 0
    /\ model = "None"
    /\ apply_model = FALSE
    /\ is_initialized = FALSE
    /\ device \in Devices
    /\ processing_stats = ZeroStats

\* line 243: readline returns a line
ReadLine ==
    /\ pc = "read"
    /\ lines_read < MaxLines
    /\ \E l \in Lines : line' = l
    /\ lines_read' = lines_read + 1
    /\ result' = Envelope
    /\ pc' = "handle"
    /\ UNCHANGED <<lines_written, successes, service>>

\* lines 244-245: readline returns '' and the loop ends
EndOfStream ==
    /\ pc = "read"
    /\ pc' = "done"
    /\ UNCHANGED <<line, lines_read, lines_written, result, successes, service>>

\* mutant: no handler around json.dumps, so a result that does not
\* serialize ends the loop with nothing written
WriteOrDie(r) ==
    IF r.audio.kind = "ndarray"
    THEN /\ pc' = "done"
         /\ UNCHANGED <<line, lines_read, lines_written, result>>
    ELSE /\ result' = r
         /\ lines_written' = lines_written + 1
         /\ pc' = "read"
         /\ UNCHANGED <<line, lines_read>>

\* print(json.dumps(...), flush=True), then back to readline
Write(r) ==
    /\ result' = Response(r)
    /\ lines_written' = lines_written + 1
    /\ pc' = "read"
    /\ UNCHANGED <<line, lines_read>>

\* lines 247, 298-304
InvalidJSON ==
    /\ pc = "handle"
    /\ ~Parses(line)
    /\ Write(ErrorEnvelope("Invalid JSON: ", "JSONDecodeError"))
    /\ UNCHANGED <<successes, service>>

\* lines 248, 306-313: the parsed value is no dict and has no get
NotAnObject ==
    /\ pc = "handle"
    /\ Parses(line)
    /\ line.value # "object"
    /\ Write(ErrorEnvelope("Service error: ", "object has no attribute 'get'"))
    /\ UNCHANGED <<successes, service>>

\* lines 250-253
InitCommand ==
    /\ pc = "handle"
    /\ Parses(line)
    /\ line.value = "object"
    /\ line.command = "init"
    /\ \E o \in InitOutcomes :
          LET i == initialize_model(o, device, model, apply_model,
                                   is_initialized)
          IN  /\ model' = i.model
              /\ apply_model' = i.apply_model
              /\ is_initialized' = i.is_initialized
              /\ Write(i.result)
    /\ UNCHANGED <<successes, device, processing_stats>>

\* lines 255-283
ProcessCommand ==
    /\ pc = "handle"
    /\ Parses(line)
    /\ line.value = "object"
    /\ line.command = "process"
    /\ \E o \in IF ReachesModel(line.audio, model, is_initialized)
                THEN ModelOutcomes ELSE {NoCall},
          elapsed \in IF ReachesModel(line.audio, model, is_initialized)
                      THEN 0..MaxElapsed ELSE {0} :
          LET p == MainProcess(line.audio, o, elapsed, model, is_initialized,
                               processing_stats)
          IN  /\ processing_stats' = p.stats
              /\ Write(p.result)
              /\ successes' = IF Response(p.result).status = "success"
                              THEN successes + 1 ELSE successes
    /\ UNCHANGED <<model, apply_model, is_initialized, device>>

\* lines 285-287
HealthCommand ==
    /\ pc = "handle"
    /\ Parses(line)
    /\ line.value = "object"
    /\ line.command = "health"
    /\ \E mem \in MemOutcomes :
          Write(health_check(mem, device, is_initialized, processing_stats))
    /\ UNCHANGED <<successes, service>>

\* lines 289-293
UnknownCommand ==
    /\ pc = "handle"
    /\ Parses(line)
    /\ line.value = "object"
    /\ line.command \notin Commands
    /\ Write(UnknownResult(line.command))
    /\ UNCHANGED <<successes, service>>

Handle ==
    \/ InvalidJSON
    \/ NotAnObject
    \/ InitCommand
    \/ ProcessCommand
    \/ HealthCommand
    \/ UnknownCommand

Next == ReadLine \/ EndOfStream \/ Handle

Spec == Init /\ [][Next]_vars

(***************************************************************************)
(* Vocabulary of the properties.                                           *)
(***************************************************************************)
\* line has been answered: result is the response written for it
Answered == result.keys # {}

\* line parsed to an object whose command field is c
IsCommand(c) == Parses(line) /\ line.value = "object" /\ line.command = c

\* the buffer the handler decoded from line's audio field
Submitted == DecodeAudio(line.audio).array

\* what the parent decodes from a response: b64decode, then frombuffer
DecodeResponse(r) ==
    IF r.audio.kind = "b64"
    THEN frombuffer(b64decode(r.audio.data).bytes)
    ELSE [ok |-> FALSE, array |-> <<>>]

\* line is a process command that went as far as the model call
ProcessReachedModel ==
    /\ Answered
    /\ IsCommand("process")
    /\ ReachesModel(line.audio, model, is_initialized)

(***************************************************************************)
(* C1.  A process command that reaches the model and then fails is         *)
(* answered with status error, the elapsed time, and the audio exactly as  *)
(* it was submitted, with the same number of samples.                      *)
(***************************************************************************)
C1_FailSoftOriginalAudio ==
    (ProcessReachedModel /\ result.status # "success") =>
        /\ result.status = "error"
        /\ "processing_time" \in result.keys
        /\ "audio" \in result.keys
        /\ DecodeResponse(result).ok
        /\ DecodeResponse(result).array = Submitted

(***************************************************************************)
(* C2.  A successful process response for a submitted buffer of N >= 1     *)
(* samples carries audio that decodes to exactly N samples, whatever       *)
(* length the model returned, and input_samples = output_samples = N.      *)
(***************************************************************************)
C2_OutputLengthEqualsInput ==
    (ProcessReachedModel /\ result.status = "success") =>
        /\ Len(Submitted) >= 1
        /\ DecodeResponse(result).ok
        /\ Len(DecodeResponse(result).array) = Len(Submitted)
        /\ result.input_samples = Len(Submitted)
        /\ result.output_samples = Len(Submitted)

\* a two-sample buffer answered with a zero-padded shorter model output
C2_Witness ==
    /\ ProcessReachedModel
    /\ result.status = "success"
    /\ Len(Submitted) = 2
    /\ DecodeResponse(result).array[1] = Four
    /\ DecodeResponse(result).array[2] = Zero

(***************************************************************************)
(* C3.  A process command handled while no init has succeeded is answered  *)
(* with status error and changes no statistic, and a health check after it *)
(* still reports model_loaded false.                                       *)
(***************************************************************************)
C3_ProcessBeforeInit ==
    [][(pc = "handle" /\ IsCommand("process") /\ ~is_initialized) =>
          /\ result'.status = "error"
          /\ processing_stats' = processing_stats
          /\ \A mem \in MemOutcomes :
                health_check(mem, device', is_initialized',
                            processing_stats').model_loaded = FALSE]_vars

\* a well-formed buffer refused because only a failed init came before: the
\* model is loaded and the flag is still false
C3_Witness ==
    /\ Answered
    /\ IsCommand("process")
    /\ ~is_initialized
    /\ model # "None"
    /\ Len(Submitted) = 2
    /\ result.message = <<"Model not initialized", "">>
    /\ processing_stats = ZeroStats

(***************************************************************************)
(* C4.  With K process responses of status success so far, health reports  *)
(* total_processed = K, and avg_time = total_time / K once K >= 1.         *)
(***************************************************************************)
C4_StatsCountSuccesses ==
    \A mem \in MemOutcomes :
        LET h == health_check(mem, device, is_initialized, processing_stats)
        IN  /\ h.stats.total_processed = successes
            /\ successes >= 1 =>
                  h.stats.avg_time = h.stats.total_time \div successes
            /\ (Answered /\ IsCommand("health")) =>
                  result.stats.total_processed = successes

\* two successes that took different times, among failures
C4_Witness ==
    /\ successes = 2
    /\ processing_stats.total_time = 1
    /\ processing_stats.avg_time = 0

(***************************************************************************)
(* C5.  Every line read is answered by exactly one response line, written  *)
(* before the next line is read, whatever the line holds; handling a line  *)
(* never ends the loop, which ends only at end-of-stream.                  *)
(***************************************************************************)
C5_OneResponsePerLine ==
    [][/\ pc = "handle" =>
             /\ lines_written = lines_read - 1
             /\ ~Answered
             /\ pc' = "read"
             /\ lines_read' = lines_read
             /\ lines_written' = lines_written + 1
             /\ result'.keys # {}
       /\ pc = "read" =>
             /\ lines_written = lines_read
             /\ lines_written' = lines_written
             /\ \/ pc' = "done" /\ lines_read' = lines_read
                \/ pc' = "handle" /\ lines_read' = lines_read + 1
       /\ pc # "done"]_vars

\* the stream has ended after MaxLines lines, the last one a process command
\* whose result could not be serialized
C5_Witness ==
    /\ pc = "done"
    /\ lines_read = MaxLines
    /\ lines_written = MaxLines
    /\ result.message[1] = "Service error: "
    /\ IsCommand("process")

(***************************************************************************)
(* C6.  A line json.loads rejects is answered with status error and a      *)
(* message that begins "Invalid JSON: "; a parsed object whose command is  *)
(* none of init, process, health is answered with status error and the     *)
(* message "Unknown command: " followed by that command.  Neither changes  *)
(* the session, and the loop goes back to reading.                         *)
(***************************************************************************)
C6_RejectedAndUnknownLines ==
    [][/\ (pc = "handle" /\ line.text = "garbage") =>
             /\ result'.status = "error"
             /\ result'.message[1] = "Invalid JSON: "
             /\ service' = service
             /\ pc' = "read"
       /\ (pc = "handle" /\ line.text # "garbage" /\ line.value = "object"
             /\ line.command \notin {"init", "process", "health"}) =>
             /\ result'.status = "error"
             /\ result'.message = <<"Unknown command: ", line.command>>
             /\ service' = service
             /\ pc' = "read"]_vars

\* C6 as stated: every line that is not valid JSON, a line with a NaN
\* literal included, is answered "Invalid JSON: "
C6_InvalidJsonAlwaysRejected ==
    [][/\ (pc = "handle" /\ line.text # "json") =>
             /\ result'.status = "error"
             /\ result'.message[1] = "Invalid JSON: "
             /\ service' = service
             /\ pc' = "read"
       /\ (pc = "handle" /\ line.text = "json" /\ line.value = "object"
             /\ line.command \notin {"init", "process", "health"}) =>
             /\ result'.status = "error"
             /\ result'.message = <<"Unknown command: ", line.command>>
             /\ service' = service
             /\ pc' = "read"]_vars

\* an unknown command answered by name in a session that is ready and has
\* counted a success, all of it left as it was
C6_Witness ==
    /\ Answered
    /\ line = Line("json", "object", "stop", NoAudio)
    /\ result.message = <<"Unknown command: ", "stop">>
    /\ is_initialized
    /\ processing_stats.total_processed = 1

(***************************************************************************)
(* C7.  Every response carries a status: "healthy" or "not_initialized"    *)
(* for a health command, "success" or "error" for every other line.        *)
(***************************************************************************)
C7_StatusValues ==
    Answered =>
        /\ "status" \in result.keys
        /\ IF IsCommand("health")
           THEN result.status \in {"healthy", "not_initialized"}
           ELSE result.status \in {"success", "error"}

\* C7 as stated: the status of every response is success or error
C7_StatusSuccessOrError ==
    Answered =>
        ("status" \in result.keys /\ result.status \in {"success", "error"})

\* a health response in a ready session
C7_Witness ==
    /\ Answered
    /\ IsCommand("health")
    /\ is_initialized
    /\ result.status = "healthy"

(***************************************************************************)
(* C8.  total_processed, total_time, max_time and errors never decrease    *)
(* (every time added to total_time being a measured time >= 0).            *)
(***************************************************************************)
C8_CountersNeverDecrease ==
    [][/\ processing_stats'.total_processed >= processing_stats.total_processed
       /\ processing_stats'.total_time >= processing_stats.total_time
       /\ processing_stats'.max_time >= processing_stats.max_time
       /\ processing_stats'.errors >= processing_stats.errors]_vars

\* C8 as stated: avg_time never decreases either
C8_AllStatsNeverDecrease ==
    [][/\ processing_stats'.total_processed >= processing_stats.total_processed
       /\ processing_stats'.total_time >= processing_stats.total_time
       /\ processing_stats'.avg_time >= processing_stats.avg_time
       /\ processing_stats'.max_time >= processing_stats.max_time
       /\ processing_stats'.errors >= processing_stats.errors]_vars

\* a success faster than the one before it: max_time stays above the last time
C8_Witness ==
    /\ processing_stats.total_processed = 2
    /\ processing_stats.max_time = 1
    /\ Answered
    /\ result.status = "success"
    /\ result.processing_time = 0

(***************************************************************************)
(* C9.  A health command changes nothing in the session; its response      *)
(* has model_loaded equal to the initialized flag, status                  *)
(* "not_initialized" exactly when the flag is false and "healthy"          *)
(* otherwise, the device, and the current counters; when memory            *)
(* introspection fails, memory_usage holds an error marker and the rest of *)
(* the response is the same.                                               *)
(***************************************************************************)
C9_HealthIsPureRead ==
    [][(pc = "handle" /\ IsCommand("health")) =>
          /\ service' = service
          /\ result'.keys = {"status", "model_loaded", "device", "stats",
                             "memory_usage"}
          /\ result'.model_loaded = is_initialized
          /\ result'.status =
                (IF is_initialized THEN "healthy" ELSE "not_initialized")
          /\ result'.device = device
          /\ result'.stats = processing_stats
          /\ result'.memory_usage \in {"usage", "error"}]_vars

\* a health response with the error marker, in a ready session with counters
C9_Witness ==
    /\ Answered
    /\ IsCommand("health")
    /\ result.memory_usage = "error"
    /\ result.model_loaded
    /\ result.stats.total_processed = 1

(***************************************************************************)
(* C10.  The audio field a client makes from a float32 buffer (tobytes,    *)
(* b64encode) decodes in the handler (b64decode, frombuffer) to the same   *)
(* buffer, bit for bit, the empty buffer included; the audio of a response *)
(* decodes to a buffer that encodes to the same text; and an empty buffer  *)
(* submitted to process is answered with an error envelope.                *)
(***************************************************************************)
C10_Base64RoundTrip ==
    /\ \A b \in Buffers :
          line.audio = EncodeAudio(b) =>
              (DecodeAudio(line.audio).ok /\ DecodeAudio(line.audio).array = b)
    /\ (Answered /\ IsCommand("process") /\ result.audio.kind = "b64") =>
          /\ DecodeResponse(result).ok
          /\ b64encode(tobytes(DecodeResponse(result).array))
                = result.audio.data
    /\ (Answered /\ IsCommand("process")
          /\ (Falsy(line.audio)
                \/ (DecodeAudio(line.audio).ok /\ Submitted = <<>>))) =>
          /\ result.status = "error"
          /\ result.message[1] \in {"No audio data provided",
                                    "Empty audio data",
                                    "Model not initialized"}
          /\ pc \in {"read", "done"}

\* a two-sample buffer decoded, processed and answered with encoded audio
C10_Witness ==
    /\ Answered
    /\ IsCommand("process")
    /\ line.audio = EncodeAudio(<<ThreeQuarters, MinusTwo>>)
    /\ result.status = "success"
    /\ DecodeResponse(result).array = <<Half, Four>>

(***************************************************************************)
(* C11.  The session is uninitialized or ready (is_initialized).  It       *)
(* starts uninitialized; the flag changes only from false to true, and     *)
(* does so exactly on an init command answered with status success; an     *)
(* init answered with status error while uninitialized leaves it           *)
(* uninitialized, and a buffer submitted to process then is still answered *)
(* "Model not initialized"; once ready, no step, a failed init included,   *)
(* leaves ready.                                                           *)
(***************************************************************************)
C11_TwoStateSession ==
    /\ ~is_initialized
    /\ [][/\ is_initialized' # is_initialized =>
                /\ ~is_initialized
                /\ is_initialized'
                /\ pc = "handle"
                /\ IsCommand("init")
                /\ result'.status = "success"
          /\ (pc = "handle" /\ IsCommand("init")
                /\ result'.status = "success") => is_initialized'
          /\ (pc = "handle" /\ IsCommand("init") /\ ~is_initialized
                /\ result'.status = "error") =>
                /\ ~is_initialized'
                /\ \A b \in Buffers \ {<<>>} :
                      MainProcess(EncodeAudio(b), NoCall, 0, model',
                                  is_initialized', processing_stats')
                          .result.message = <<"Model not initialized", "">>
          /\ is_initialized => is_initialized']_vars

\* a ready session after an init that failed: still ready, with the model
\* that init loaded in place of the first one
C11_Witness ==
    /\ Answered
    /\ IsCommand("init")
    /\ result.status = "error"
    /\ is_initialized
    /\ model = "speechbrain"
    /\ apply_model

====
